---- MODULE Spec2Model ----
(***************************************************************************)
(* A model of grade_homework.py: the notebook grading pipeline             *)
(*   execute_notebook (read, extract, gate, run)  ->  grade_result         *)
(*   -> main's one-entry report.                                           *)
(*                                                                         *)
(* Text is modelled as a sequence of tokens.  A token is either one        *)
(* character ("0", ".", ",", the newline) or one fixed literal of the      *)
(* program that is never split ("# YOUR CODE HERE", "n_subproblems = ",    *)
(* "Ideal point: z = [").  Substring tests and regular expressions of the  *)
(* code are scanners over such sequences.                                  *)
(*                                                                         *)
(* Numbers: the code computes in binary floating point.  The model         *)
(* computes the same quantities exactly, as integers over a power-of-ten   *)
(* unit, and keeps the score in hundredths of a point (1000 = 10.0).       *)
(***************************************************************************)
EXTENDS Integers, Sequences, FiniteSets, TLC

VARIABLES
    pc,             \* position in main / execute_notebook
    nb,             \* the notebook as read: its cells, in document order
    full_code,      \* execute_notebook's accumulator (the extracted program)
    proc,           \* what the subprocess did (the environment's answer)
    spawned,        \* how many times subprocess.run was called
    returned,       \* how many (output, error_message) pairs execute_notebook returned
    output,         \* main's output          (optional text)
    error_message,  \* main's error_message   (optional text)
    score,          \* main's score, in hundredths of a point
    feedback,       \* main's feedback (text)
    graded,         \* how many times grade_result was called
    reports         \* the reports printed so far

vars == <<pc, nb, full_code, proc, spawned, returned, output, error_message,
          score, feedback, graded, reports>>

----------------------------------------------------------------------------
(* Bounds of the model. *)

\* A notebook's size is the sum over its cells of 1 + the tokens of the source.
MaxNbSize == 4

\* The longest first number of a marker occurrence that is enumerated.
MaxNumLen == 8

----------------------------------------------------------------------------
(* Program constants. *)

\* OPTIMAL_F1 = 0.005, in units of 1e-4.
OPTIMAL_F1_E4 == 50

\* TOLERANCE = 0.10, in percent.
TOLERANCE_PCT == 10

\* 'max_score': 10
MAX_SCORE == 10

----------------------------------------------------------------------------
(* Tokens. *)

NL == "\n"
SENTINEL == "# YOUR CODE HERE"
PARAM == "n_subproblems = "
MARK == "Ideal point: z = ["
MARK_UPPER == "IDEAL POINT: Z = ["

Digits == {"0", "1", "2", "3", "4", "5", "6", "7", "8", "9"}
NumClass == Digits \cup {"."}
SpaceClass == {" ", NL}

\* Python's None and a present text, for output and error_message.
None == [isNone |-> TRUE, val |-> <<>>]
Some(s) == [isNone |-> FALSE, val |-> s]

\* Truth value of an optional text: None and "" are false.
Truthy(x) == (~x.isNone) /\ (x.val # <<>>)

Max(a, b) == IF a >= b THEN a ELSE b

RECURSIVE Pow10(_)
Pow10(n) == IF n <= 0 THEN 1 ELSE 10 * Pow10(n - 1)

\* `needle in hay` for texts.
Contains(hay, needle) ==
    \E i \in 1..(Len(hay) - Len(needle) + 1) :
        SubSeq(hay, i, i + Len(needle) - 1) = needle

\* The first index >= i of s that holds a token outside class, Len(s)+1 if none.
RECURSIVE RunEnd(_, _, _)
RunEnd(s, i, class) ==
    IF i > Len(s) \/ s[i] \notin class THEN i ELSE RunEnd(s, i + 1, class)

----------------------------------------------------------------------------
(* The Code Extractor. *)

\* The index of the newline that ends the line position i lies on.
RECURSIVE LineEnd(_, _)
LineEnd(s, i) == IF i > Len(s) \/ s[i] = NL THEN i ELSE LineEnd(s, i + 1)

\* A plausible slip: the pattern without its leading ".*" keeps what precedes
\* the marker on the line.
RECURSIVE ReSubFromNoPrefix(_, _)
ReSubFromNoPrefix(s, i) ==
    IF i > Len(s) THEN <<>>
    ELSE IF s[i] = SENTINEL
         THEN <<"1">> \o ReSubFromNoPrefix(s, LineEnd(s, i))
         ELSE <<s[i]>> \o ReSubFromNoPrefix(s, i + 1)

\* re.sub(r".*# YOUR CODE HERE.*", "1", s) from position i.  "." matches all
\* but the newline, so a match starting at i runs to the end of i's line and
\* exists iff the marker occurs at or after i on that line; the scan resumes
\* where the match ended, and copies one token where there is no match.
RECURSIVE ReSubFrom(_, _)
ReSubFrom(s, i) ==
    IF i > Len(s) THEN <<>>
    ELSE IF \E j \in i..(LineEnd(s, i) - 1) : s[j] = SENTINEL
         THEN <<"1">> \o ReSubFrom(s, LineEnd(s, i))
         ELSE <<s[i]>> \o ReSubFrom(s, i + 1)

ReSub_NoPrefix(s) == ReSubFromNoPrefix(s, 1)

ReSub(s) == ReSubFrom(s, 1)

\* The loop over nb.cells: full_code += clean_source + '\n' for code cells.
RECURSIVE ExtractCode(_)
ExtractCode(cells) ==
    IF cells = <<>> THEN <<>>
    ELSE (IF Head(cells).cell_type = "code"
          THEN ReSub(Head(cells).source) \o <<NL>>
          ELSE <<>>) \o ExtractCode(Tail(cells))

\* A plausible slip: the gate is skipped.
GateRejects_Never(code) == FALSE

\* if "n_subproblems = 1" in full_code
GateRejects(code) == Contains(code, <<PARAM, "1">>)

\* (the function name is quoted with backquotes in the source)
GATE_MESSAGE ==
    <<"The GA parameters were not set. Please complete the configuration in the run_moead_heatsink function.">>

READ_ERROR_PREFIX == "Error reading notebook file: "
EXEC_FAILED_PREFIX == "Code execution failed with an error:\n"
TIMEOUT_MESSAGE == <<"Code execution timed out after 4 minutes.">>
UNEXPECTED_PREFIX == "An unexpected error occurred during execution: "

----------------------------------------------------------------------------
(* The Result Grader. *)

DigitVal(c) ==
    CASE c = "0" -> 0 [] c = "1" -> 1 [] c = "2" -> 2 [] c = "3" -> 3
      [] c = "4" -> 4 [] c = "5" -> 5 [] c = "6" -> 6 [] c = "7" -> 7
      [] c = "8" -> 8 [] c = "9" -> 9

DigitStr(d) == <<"0", "1", "2", "3", "4", "5", "6", "7", "8", "9">>[d + 1]

\* The digits of g read as one integer, the dot skipped.
RECURSIVE DigitsValue(_, _)
DigitsValue(g, acc) ==
    IF g = <<>> THEN acc
    ELSE IF Head(g) = "." THEN DigitsValue(Tail(g), acc)
         ELSE DigitsValue(Tail(g), 10 * acc + DigitVal(Head(g)))

DotsOf(g) == {i \in 1..Len(g) : g[i] = "."}

\* float(g) for a text g over [0-9.]: a ValueError unless g has a digit and at
\* most one dot; otherwise the value num / 10^scale.
ParseFloat(g) ==
    LET dots == DotsOf(g)
    IN  IF Cardinality(dots) > 1 \/ Cardinality(dots) = Len(g)
        THEN [ok |-> FALSE, num |-> 0, scale |-> 0]
        ELSE [ok |-> TRUE,
              num |-> DigitsValue(g, 0),
              scale |-> IF dots = {} THEN 0 ELSE Len(g) - (CHOOSE i \in dots : TRUE)]

\* The power-of-ten unit a parsed value is computed in: 10^-UnitExp(f).
UnitExp(f) == Max(f.scale, 4)

\* OPTIMAL_F1 in that unit.
OptimalIn(f) == OPTIMAL_F1_E4 * Pow10(UnitExp(f) - 4)

\* student_f1 >= 2 * OPTIMAL_F1, decided without scaling the value up.
TwiceOptimalOrMore(f) ==
    IF f.scale >= 4
    THEN f.num >= 2 * OPTIMAL_F1_E4 * Pow10(f.scale - 4)
    ELSE f.num >= (2 * OPTIMAL_F1_E4 + Pow10(4 - f.scale) - 1) \div Pow10(4 - f.scale)

\* error = abs(student_f1 - OPTIMAL_F1) / OPTIMAL_F1 as the fraction
\* ErrorNum(f) / OptimalIn(f).  Every student_f1 of 2 * OPTIMAL_F1 or more has
\* error >= 1, where the score no longer depends on it: the numerator is kept
\* at OptimalIn(f) (error 1) there, and over records that the error is larger.
ErrorNum(f) ==
    IF TwiceOptimalOrMore(f) THEN OptimalIn(f)
    ELSE LET v == f.num * Pow10(UnitExp(f) - f.scale)
         IN  IF v >= OptimalIn(f) THEN v - OptimalIn(f) ELSE OptimalIn(f) - v

\* a / b rounded to the nearest integer, an exact half to the even neighbour
\* (round() on a float that is exactly a half-way value).
RoundDiv(a, b) ==
    LET q == a \div b
        r == a % b
    IN  IF 2 * r > b THEN q + 1
        ELSE IF 2 * r < b THEN q
        ELSE IF q % 2 = 0 THEN q ELSE q + 1

\* A plausible slip: the decay runs the wrong way.
LinearScore_Rising(n, d, unit) ==
    RoundDiv(((1000 * 100) \div OPTIMAL_F1_E4) * n, (100 - TOLERANCE_PCT) * unit)

\* A plausible slip: the score is truncated, not rounded.
LinearScore_Truncated(n, d, unit) ==
    (((1000 * 100) \div OPTIMAL_F1_E4) * (d - n)) \div ((100 - TOLERANCE_PCT) * unit)

\* round(10.0 * (1 - (error - TOLERANCE) / (1.0 - TOLERANCE)), 2) in hundredths,
\* for error = n / d with d = OPTIMAL_F1_E4 * unit:
\*   1000 * (1 - (n/d - T/100) / (1 - T/100)) = 1000 * 100 * (d - n) / ((100 - T) * d)
\* and OPTIMAL_F1_E4 is cancelled from both sides.
LinearScore(n, d, unit) ==
    RoundDiv(((1000 * 100) \div OPTIMAL_F1_E4) * (d - n), (100 - TOLERANCE_PCT) * unit)

\* Lines 71-79: the piecewise score of error = n / d, rounded, in hundredths.
ScoreOfError(n, d, unit) ==
    IF 100 * n <= TOLERANCE_PCT * d THEN 100 * MAX_SCORE
    ELSE IF n < d THEN LinearScore(n, d, unit)
    ELSE 0

ScoreOfValue(f) == ScoreOfError(ErrorNum(f), OptimalIn(f), Pow10(UnitExp(f) - 4))

\* The decimal digits of a natural number.
RECURSIVE NatText(_)
NatText(n) == IF n < 10 THEN <<DigitStr(n)>> ELSE NatText(n \div 10) \o <<DigitStr(n % 10)>>

\* str() of a score with at most two decimals: 10.0, 5.56, 9.9, 0.0.
ScoreText(s) ==
    NatText(s \div 100) \o <<".">> \o
    (IF s % 10 = 0 THEN <<DigitStr((s % 100) \div 10)>>
     ELSE <<DigitStr((s % 100) \div 10), DigitStr(s % 10)>>)

\* One occurrence of the pattern
\*   Ideal point: z = \[([0-9.]+),\s*([0-9.]+)\]     (re.IGNORECASE)
\* starting at position i of out, if there is one.  Each class run is greedy
\* and the token that must follow it lies outside the class, so only the
\* maximal run can match.
MatchAt(out, i) ==
    LET g1End == RunEnd(out, i + 1, NumClass)
        g2Start == RunEnd(out, g1End + 1, SpaceClass)
        g2End == RunEnd(out, g2Start, NumClass)
    IN  IF /\ out[i] \in {MARK, MARK_UPPER}
           /\ g1End > i + 1 /\ g1End <= Len(out) /\ out[g1End] = ","
           /\ g2End > g2Start /\ g2End <= Len(out) /\ out[g2End] = "]"
        THEN [ok |-> TRUE, g1 |-> SubSeq(out, i + 1, g1End - 1),
              g2 |-> SubSeq(out, g2Start, g2End - 1), end |-> g2End]
        ELSE [ok |-> FALSE, g1 |-> <<>>, g2 |-> <<>>, end |-> i]

\* re.findall from position i: the non-overlapping matches, left to right.
RECURSIVE FindAllFrom(_, _)
FindAllFrom(out, i) ==
    IF i > Len(out) THEN <<>>
    ELSE LET m == MatchAt(out, i)
         IN  IF m.ok
             THEN <<<<m.g1, m.g2>>>> \o FindAllFrom(out, m.end + 1)
             ELSE FindAllFrom(out, i + 1)

FindAll(out) == FindAllFrom(out, 1)

\* A plausible slip: matches[0][0].
Authoritative_First(matches) == matches[1][1]

\* matches[-1][0]
Authoritative(matches) == matches[Len(matches)][1]

NO_OUTPUT_MESSAGE == <<"Could not get output from the notebook.">>
NOT_FOUND_MESSAGE ==
    <<"Could not find the 'Ideal point: z' in the output. Make sure the algorithm runs to completion.">>
NOT_PARSED_MESSAGE == <<"Could not parse the ideal point values from the output.">>
GRADED_HEAD ==
    "Grading based on the final Thermal Resistance (f1) in the ideal point.\nTarget f1: ~0.005\n"

\* The feedback of a graded value.  Its "Your Final f1" and "Error" lines are
\* float renderings of student_f1 and error and are not part of the text
\* here; the score line is.
GradedFeedback(s) == <<GRADED_HEAD, "Score: ">> \o ScoreText(s) \o <<"/10">>

\* A plausible slip: the ValueError of float() is not caught.
AfterParse_Uncaught(g1) ==
    LET f == ParseFloat(g1)
        s == ScoreOfValue(f)
    IN  IF ~f.ok
        THEN [raised |-> TRUE, score |-> 0, feedback |-> <<>>]
        ELSE [raised |-> FALSE, score |-> s, feedback |-> GradedFeedback(s)]

\* Lines 62-89: float() of the first group, its ValueError caught, then the
\* score and the feedback.
AfterParse(g1) ==
    LET f == ParseFloat(g1)
        s == ScoreOfValue(f)
    IN  IF ~f.ok
        THEN [raised |-> FALSE, score |-> 0, feedback |-> NOT_PARSED_MESSAGE]
        ELSE [raised |-> FALSE, score |-> s, feedback |-> GradedFeedback(s)]

\* grade_result(output): (score, feedback); raised tells an exception left it.
grade_result(out) ==
    IF out.isNone THEN [raised |-> FALSE, score |-> 0, feedback |-> NO_OUTPUT_MESSAGE]
    ELSE LET matches == FindAll(out.val)
         IN  IF matches = <<>>
             THEN [raised |-> FALSE, score |-> 0, feedback |-> NOT_FOUND_MESSAGE]
             ELSE AfterParse(Authoritative(matches))

----------------------------------------------------------------------------
(* The inputs: notebooks, subprocess outcomes, captured output. *)

CodeTokens == {PARAM, "1", "0", SENTINEL, NL}
CellTypes == {"code", "markdown"}

\* The notebooks of size exactly n.
RECURSIVE NotebooksOfSize(_)
NotebooksOfSize(n) ==
    IF n = 0 THEN {<<>>}
    ELSE UNION {
           {<<[cell_type |-> t, source |-> src]>> \o rest :
                t \in CellTypes,
                src \in [1..(k - 1) -> CodeTokens],
                rest \in NotebooksOfSize(n - k)} : k \in 1..n}

Notebooks == UNION {NotebooksOfSize(n) : n \in 0..MaxNbSize}

ReadErrors ==
    {"[Errno 2] No such file or directory", "Notebook does not appear to be JSON"}
LaunchErrors == {"[Errno 7] Argument list too long"}

\* One well-formed marker line carrying g as its first number.
MarkerLine(g) == <<MARK>> \o g \o <<",", " ", "0", ".", "1", "]", NL>>

\* Marker-like lines the pattern does not match: a negative first number, and
\* a first number in scientific notation.
NegativeLine == <<MARK, "-", "5", ",", " ", "0", "]", NL>>
ScientificLine == <<MARK, "5", "e", "-", "3", ",", " ", "0", "]", NL>>
NoiseLine == <<"x", NL>>

OUT_A == MarkerLine(<<"0", ".", "0", "0", "5", "0">>)
OUT_B == MarkerLine(<<"0", ".", "0", "1">>) \o MarkerLine(<<"0", ".", "0", "0", "5", "5">>)
OUT_C == MarkerLine(<<"0", ".", "0", "2">>)
OUT_D == MarkerLine(<<"0", ".", "0", "0", "7", "5">>)
OUT_UNPARSABLE == NoiseLine \o MarkerLine(<<"1", ".", "2", ".", "3">>)
\* The literal in upper case, a newline as the white space after the comma.
OUT_UPPER == <<MARK_UPPER, "0", ".", "0", "0", "5", ",", NL, "1", "]">>

\* What a subprocess may have written when the pipeline runs end to end.
Stdouts == {<<>>, NoiseLine, OUT_A, OUT_B, OUT_D, OUT_UNPARSABLE}
Stderrs == {<<>>, <<"Traceback (most recent call last):", NL>>}

\* What subprocess.run can do: raise before a process exists (fault), raise
\* TimeoutExpired after killing the process (its partial streams are in the
\* exception), or return a CompletedProcess.  A fault has no streams: its
\* stderr field holds the text of the exception.
ProcOutcomes ==
    {[kind |-> "fault", returncode |-> 0, stdout |-> <<>>, stderr |-> <<c>>] : c \in LaunchErrors}
    \cup [kind : {"timeout"}, returncode : {-9}, stdout : Stdouts, stderr : Stderrs]
    \cup [kind : {"exited"}, returncode : {0, 1}, stdout : Stdouts, stderr : Stderrs]

NoProc == [kind |-> "none", returncode |-> 0, stdout |-> <<>>, stderr |-> <<>>]

\* The first numbers grade_result is applied to: every text over 0, 5 and the
\* dot up to MaxNumLen tokens, and the numbers of the documented scenarios.
NumChars == {"0", "5", "."}
ScenarioNums ==
    {<<"0", ".", "0", "1">>, <<"0", ".", "0", "2">>, <<"0", ".", "0", "0", "7", "5">>,
     <<"0", ".", "0", "0", "4", "5">>, <<"1", ".", "2", ".", "3">>}
NumStrings == UNION {[1..n -> NumChars] : n \in 1..MaxNumLen} \cup ScenarioNums

\* What precedes and what follows the last marker line of a captured output.
GradePrefixes ==
    {<<>>,
     MarkerLine(<<"0", ".", "0", "1">>),
     MarkerLine(<<"0", ".", "0", "0", "5">>) \o NoiseLine \o MarkerLine(<<"0", ".", "0", "2">>),
     MarkerLine(<<"1", ".", "2", ".", "3">>) \o ScientificLine}
GradeSuffixes == {<<>>, NegativeLine}

\* Every enumerated first number alone and between an earlier marker line
\* and a later line that is no occurrence; the scenario numbers (and no
\* marker line at all) in every context.
GradeOutputs ==
    {MarkerLine(g) : g \in NumStrings}
    \cup {MarkerLine(<<"0", ".", "0", "1">>) \o MarkerLine(g) \o NegativeLine : g \in NumStrings}
    \cup {pre \o mid \o suf :
            pre \in GradePrefixes,
            mid \in {MarkerLine(g) : g \in ScenarioNums \cup {<<"0", ".", "0", "0", "5", "5">>}}
                    \cup {<<>>},
            suf \in GradeSuffixes}
    \cup {OUT_UPPER, OUT_C, NoiseLine}

----------------------------------------------------------------------------
(* The pipeline. *)

Unread == [state |-> "unread", cells |-> <<>>]

Init ==
    /\ pc = "read"
    /\ nb = Unread
    /\ full_code = <<>>
    /\ proc = NoProc
    /\ spawned = 0
    /\ returned = 0
    /\ output = None
    /\ error_message = None
    /\ score = 0
    /\ feedback = <<>>
    /\ graded = 0
    /\ reports = <<>>

\* execute_notebook returns (out, err) to main.
Return(out, err) ==
    /\ output' = out
    /\ error_message' = err
    /\ returned' = returned + 1
    /\ pc' = "main"

\* Lines 12-16: nbformat.read raises.
ReadFails ==
    /\ pc = "read"
    /\ \E cause \in ReadErrors :
          /\ nb' = [state |-> "failed", cells |-> <<>>]
          /\ Return(None, Some(<<READ_ERROR_PREFIX, cause>>))
    /\ UNCHANGED <<full_code, proc, spawned, score, feedback, graded, reports>>

\* Lines 12-14: nbformat.read returns the notebook.
ReadSucceeds ==
    /\ pc = "read"
    /\ \E cells \in Notebooks : nb' = [state |-> "read", cells |-> cells]
    /\ pc' = "extract"
    /\ UNCHANGED <<full_code, proc, spawned, returned, output, error_message,
                   score, feedback, graded, reports>>

\* Lines 18-23: the loop over the cells.
Extract ==
    /\ pc = "extract"
    /\ full_code' = ExtractCode(nb.cells)
    /\ pc' = "gate"
    /\ UNCHANGED <<nb, proc, spawned, returned, output, error_message,
                   score, feedback, graded, reports>>

\* Lines 25-26: the pre-flight gate.
Gate ==
    /\ pc = "gate"
    /\ IF GateRejects(full_code)
       THEN Return(None, Some(GATE_MESSAGE))
       ELSE /\ pc' = "run"
            /\ UNCHANGED <<returned, output, error_message>>
    /\ UNCHANGED <<nb, full_code, proc, spawned, score, feedback, graded, reports>>

\* execute_notebook returns (out, err): no exception, no second run.
Finished(out, err) == [raised |-> FALSE, retry |-> FALSE, out |-> out, err |-> err]

\* A plausible slip: only TimeoutExpired is caught.
RunResult_FaultUncaught(o) ==
    CASE o.kind = "timeout" -> Finished(None, Some(TIMEOUT_MESSAGE))
      [] o.kind = "fault" -> [raised |-> TRUE, retry |-> FALSE, out |-> None, err |-> None]
      [] o.returncode # 0 -> Finished(None, Some(<<EXEC_FAILED_PREFIX>> \o o.stderr))
      [] OTHER -> Finished(Some(o.stdout), None)

\* A plausible slip: a timed-out program is run again.
RunResult_RetryOnTimeout(o) ==
    CASE o.kind = "timeout" -> [raised |-> FALSE, retry |-> TRUE, out |-> None, err |-> None]
      [] o.kind = "fault" -> Finished(None, Some(<<UNEXPECTED_PREFIX>> \o o.stderr))
      [] o.returncode # 0 -> Finished(None, Some(<<EXEC_FAILED_PREFIX>> \o o.stderr))
      [] OTHER -> Finished(Some(o.stdout), None)

\* A plausible slip: the diagnostic of a failed run carries the other stream.
RunResult_WrongStream(o) ==
    CASE o.kind = "timeout" -> Finished(None, Some(TIMEOUT_MESSAGE))
      [] o.kind = "fault" -> Finished(None, Some(<<UNEXPECTED_PREFIX>> \o o.stderr))
      [] o.returncode # 0 -> Finished(None, Some(<<EXEC_FAILED_PREFIX>> \o o.stdout))
      [] OTHER -> Finished(Some(o.stdout), None)

\* Lines 28-43: what execute_notebook makes of subprocess.run's outcome.  The
\* code never calls subprocess.run again (retry is FALSE on every path) and
\* lets no exception of the call out (raised is FALSE on every path).
RunResult(o) ==
    CASE o.kind = "timeout" -> Finished(None, Some(TIMEOUT_MESSAGE))
      [] o.kind = "fault" -> Finished(None, Some(<<UNEXPECTED_PREFIX>> \o o.stderr))
      [] o.returncode # 0 -> Finished(None, Some(<<EXEC_FAILED_PREFIX>> \o o.stderr))
      [] OTHER -> Finished(Some(o.stdout), None)

\* Lines 28-43: subprocess.run and the return of execute_notebook.
RunSubprocess ==
    /\ pc = "run"
    /\ \E o \in ProcOutcomes :
          /\ proc' = o
          /\ spawned' = spawned + 1
          /\ IF RunResult(o).raised
             THEN /\ pc' = "crashed"
                  /\ UNCHANGED <<returned, output, error_message>>
             ELSE IF RunResult(o).retry
             THEN /\ pc' = "run"
                  /\ UNCHANGED <<returned, output, error_message>>
             ELSE Return(RunResult(o).out, RunResult(o).err)
    /\ UNCHANGED <<nb, full_code, score, feedback, graded, reports>>

\* Lines 95-99: main's branch on error_message; calls counts the calls of
\* grade_result.
MainResult(out, err) ==
    IF Truthy(err)
    THEN [raised |-> FALSE, score |-> 0, feedback |-> err.val, calls |-> 0]
    ELSE LET g == grade_result(out)
         IN  [raised |-> g.raised, score |-> g.score, feedback |-> g.feedback, calls |-> 1]

\* Lines 93-99: main after execute_notebook has returned.  An exception that
\* left grade_result would end main without a report.
MainGrade ==
    /\ pc = "main"
    /\ \E r \in {MainResult(output, error_message)} :
          /\ graded' = graded + r.calls
          /\ IF r.raised
             THEN /\ pc' = "crashed"
                  /\ UNCHANGED <<score, feedback>>
             ELSE /\ score' = r.score
                  /\ feedback' = r.feedback
                  /\ pc' = "report"
    /\ UNCHANGED <<nb, full_code, proc, spawned, returned, output, error_message, reports>>

\* Lines 101-112: the report, printed once.
Report ==
    /\ pc = "report"
    /\ reports' = Append(reports,
          [tests |-> <<[name |-> "Heat Sink Multi-Objective Optimization",
                        score |-> score,
                        max_score |-> MAX_SCORE,
                        output |-> feedback]>>])
    /\ pc' = "done"
    /\ UNCHANGED <<nb, full_code, proc, spawned, returned, output, error_message,
                   score, feedback, graded>>

Next == ReadFails \/ ReadSucceeds \/ Extract \/ Gate \/ RunSubprocess \/ MainGrade \/ Report

\* One grading run, from the read of the notebook to the printed report.
Spec == Init /\ [][Next]_vars

\* grade_result applied to one captured output: main right after
\* execute_notebook has returned (output, None).
InitGrade ==
    /\ pc = "main"
    /\ nb = Unread
    /\ full_code = <<>>
    /\ proc = NoProc
    /\ spawned = 0
    /\ returned = 1
    /\ output \in {Some(o) : o \in GradeOutputs}
    /\ error_message = None
    /\ score = 0
    /\ feedback = <<>>
    /\ graded = 0
    /\ reports = <<>>

NextGrade == MainGrade

SpecGrade == InitGrade /\ [][NextGrade]_vars

----------------------------------------------------------------------------
(* Vocabulary of the properties, stated apart from the operators above. *)

Range(s) == {s[i] : i \in 1..Len(s)}

\* The disallowed configuration literal occurs in the accumulated source.
LiteralPresent ==
    \E i \in 1..(Len(full_code) - 1) : full_code[i] = PARAM /\ full_code[i + 1] = "1"

ReadFailed == nb.state = "failed"
LaunchFault == proc.kind = "fault"
TimedOut == proc.kind = "timeout"
NonZeroExit == proc.kind = "exited" /\ proc.returncode # 0

\* execute_notebook has returned.
Returned == pc \in {"main", "report", "done"}
\* main has its score and feedback.
Scored == pc \in {"report", "done"}

\* The one test entry of the one report, once printed.
Entry == reports[1].tests[1]

----------------------------------------------------------------------------
(* C1 *)

----------------------------------------------------------------------------
(* C2 *)

\* C2: when the read failed or the literal is in the accumulated source, no
\* subprocess is ever started, grade_result never runs, and the score is 0
\* with the read-error, respectively the configuration-incomplete, message
\* as feedback, in main and in the report.
C2_NoSpawnWhenGated ==
    (ReadFailed \/ LiteralPresent) =>
        /\ spawned = 0 /\ proc = NoProc /\ graded = 0 /\ pc # "run"
        /\ Scored =>
              /\ score = 0
              /\ ReadFailed =>
                    /\ Len(feedback) = 2
                    /\ feedback[1] = "Error reading notebook file: "
                    /\ feedback[2] \in ReadErrors
              /\ LiteralPresent =>
                    /\ Len(feedback) = 1
                    /\ feedback = GATE_MESSAGE
        /\ (pc = "done") => (Entry.score = 0 /\ Entry.output = feedback)

\* A run that ended at the gate: the literal is in the source, nothing was spawned.
C2_Witness ==
    pc = "done" /\ nb.state = "read" /\ LiteralPresent /\ spawned = 0 /\ Entry.score = 0

----------------------------------------------------------------------------
(* C3 *)

\* C3: subprocess.run is called at most once and execute_notebook returns
\* exactly one result; after a timeout the program is not run again, the
\* partial stdout of the killed process reaches neither main's output nor
\* grade_result, and the score is 0 with the timed-out message as feedback.
C3_OneRunNoRetry ==
    /\ spawned <= 1
    /\ returned <= 1
    /\ Returned => returned = 1
    /\ TimedOut =>
          /\ Returned
          /\ output = None
          /\ graded = 0
          /\ Scored => (score = 0 /\ feedback = <<"Code execution timed out after 4 minutes.">>)
          /\ (pc = "done") =>
                (Entry.score = 0 /\ Entry.output = <<"Code execution timed out after 4 minutes.">>)

\* A timeout whose partial stdout held a full-credit marker line.
C3_Witness ==
    pc = "done" /\ TimedOut /\ proc.stdout = OUT_A /\ spawned = 1 /\ Entry.score = 0

----------------------------------------------------------------------------
(* C4 *)

\* C4 as stated: on a non-zero exit the diagnostic is the captured stderr
\* verbatim, and it is the feedback of a score-0 report, stdout not parsed.
C4_DiagnosticIsStderr ==
    (NonZeroExit /\ Returned) =>
        /\ output = None
        /\ error_message = Some(proc.stderr)
        /\ Scored => (score = 0 /\ feedback = proc.stderr /\ graded = 0)

\* C4 as amended: on a non-zero exit the diagnostic is the fixed line
\* "Code execution failed with an error:" followed by the captured stderr
\* verbatim; main reports score 0 with that diagnostic as feedback and
\* grade_result is not called.
C4_DiagnosticHasStderr ==
    (NonZeroExit /\ Returned) =>
        /\ output = None
        /\ error_message = Some(<<"Code execution failed with an error:\n">> \o proc.stderr)
        /\ Scored =>
              /\ score = 0
              /\ feedback = <<"Code execution failed with an error:\n">> \o proc.stderr
              /\ graded = 0
        /\ (pc = "done") => (Entry.score = 0 /\ Entry.output = feedback)

\* A non-zero exit with a traceback on stderr and a full-credit stdout.
C4_Witness ==
    /\ pc = "done" /\ NonZeroExit
    /\ proc.stderr # <<>> /\ proc.stdout = OUT_A
    /\ Entry.score = 0

----------------------------------------------------------------------------
(* C9 *)

\* The lines of a text: the pieces between its newlines.
RECURSIVE SplitLines(_)
SplitLines(s) ==
    IF NL \notin Range(s) THEN <<s>>
    ELSE LET e == CHOOSE i \in 1..Len(s) : s[i] = NL /\ \A j \in 1..(i - 1) : s[j] # NL
         IN  <<SubSeq(s, 1, e - 1)>> \o SplitLines(SubSeq(s, e + 1, Len(s)))

RECURSIVE JoinLines(_)
JoinLines(ls) ==
    IF Len(ls) = 1 THEN ls[1] ELSE ls[1] \o <<NL>> \o JoinLines(Tail(ls))

\* A cell body with every line that holds the marker replaced by "1".
CleanBody(src) ==
    JoinLines([i \in 1..Len(SplitLines(src)) |->
                  IF SENTINEL \in Range(SplitLines(src)[i])
                  THEN <<"1">> ELSE SplitLines(src)[i]])

RECURSIVE ConcatBodies(_)
ConcatBodies(cells) ==
    IF cells = <<>> THEN <<>>
    ELSE CleanBody(Head(cells).source) \o <<NL>> \o ConcatBodies(Tail(cells))

IsCodeCell(c) == c.cell_type = "code"

\* C9: the extracted program is the concatenation, in document order, of the
\* code cells' bodies, each followed by a newline, with every line that held
\* the sentinel marker replaced in full by 1; the marker occurs nowhere in it
\* and the other cells contribute nothing.
C9_ExtractedProgram ==
    (nb.state = "read" /\ pc # "read" /\ pc # "extract") =>
        /\ full_code = ConcatBodies(SelectSeq(nb.cells, IsCodeCell))
        /\ SENTINEL \notin Range(full_code)

\* A code cell with the marker on a line that holds more than the marker,
\* beside a cell that is not code.
C9_Witness ==
    /\ pc = "gate"
    /\ \E i \in 1..Len(nb.cells) :
          /\ nb.cells[i].cell_type = "code"
          /\ SENTINEL \in Range(nb.cells[i].source)
          /\ Len(nb.cells[i].source) >= 2
    /\ \E i \in 1..Len(nb.cells) : nb.cells[i].cell_type # "code"
    /\ "1" \in Range(full_code)

----------------------------------------------------------------------------
(* C10 *)

\* The values the program assigns to n_subproblems: the digits after each
\* occurrence of "n_subproblems = ".
AssignedValues ==
    {SubSeq(full_code, i + 1, RunEnd(full_code, i + 1, Digits) - 1) :
        i \in {j \in 1..Len(full_code) : full_code[j] = PARAM}}

\* C10: a program that assigns n_subproblems some value, and nowhere the
\* value 1, passes the gate and reaches the subprocess stage.
C10_GateOnlyRejectsDefault ==
    (/\ nb.state = "read" /\ pc \notin {"read", "extract", "gate"}
     /\ AssignedValues # {}
     /\ <<"1">> \notin AssignedValues /\ <<>> \notin AssignedValues)
        => (pc = "run" \/ spawned = 1)

----------------------------------------------------------------------------
(* Vocabulary of the grader's properties. *)

\* The start of the last marker occurrence at or before position i of out,
\* 0 if there is none.  An occurrence holds the literal only at its start, so
\* occurrences never overlap.
RECURSIVE LastStartFrom(_, _)
LastStartFrom(out, i) ==
    IF i = 0 THEN 0
    ELSE IF MatchAt(out, i).ok THEN i
    ELSE LastStartFrom(out, i - 1)

LastStart == LastStartFrom(output.val, Len(output.val))
HasOccurrence == LastStart > 0
\* Two occurrences or more.
HasEarlierOccurrence == HasOccurrence /\ LastStartFrom(output.val, LastStart - 1) > 0
\* The first number of the last occurrence.
LastFirstNumber == MatchAt(output.val, LastStart).g1

\* A text over digits and dots that reads as a floating-point value.
Parses(g) ==
    /\ \E i \in 1..Len(g) : g[i] \in Digits
    /\ \A i, j \in 1..Len(g) : (g[i] = "." /\ g[j] = ".") => i = j

\* grade_result has returned a score for a parsed value.
GradedValue == pc = "report" /\ graded = 1 /\ HasOccurrence /\ Parses(LastFirstNumber)

\* 0.10 < error < 1.0 for a parsed value.
InBand(f) ==
    /\ ~TwiceOptimalOrMore(f)
    /\ 10 * ErrorNum(f) > OptimalIn(f)
    /\ ErrorNum(f) < OptimalIn(f)

\* The error numerator of f over the unit 10^-exp (exp >= UnitExp(f)).
ErrorAt(f, exp) == ErrorNum(f) * Pow10(exp - UnitExp(f))

\* The enumerated values whose error lies strictly between 0.10 and 1.0.
BandValues == {ParseFloat(g) : g \in {h \in NumStrings : Parses(h) /\ InBand(ParseFloat(h))}}

----------------------------------------------------------------------------
(* C5 *)

\* C5: for a parsed value v with e = |v - 0.005| / 0.005 the score is 10.0
\* when e <= 0.10 (v = 0.0055 included), 0.0 when e >= 1.0 (v = 0.02, v = 0),
\* and otherwise 10.0 * (1 - (e - 0.10) / 0.90) rounded to 2 decimals
\* (v = 0.0075 gives 5.56); it always lies in [0,10].
\* With e = n / (50 u) the unrounded score in hundredths is
\* 200 * (50 u - n) / (9 u), and s is its rounding iff twice the distance of
\* 9 u s from 200 * (50 u - n) is at most 9 u.
C5_PiecewiseScore ==
    GradedValue =>
        LET g == LastFirstNumber
            f == ParseFloat(g)
            n == ErrorNum(f)
            u == Pow10(UnitExp(f) - 4)
            diff == 9 * u * score - 200 * (50 * u - n)
        IN  /\ score \in 0..1000
            /\ (10 * n <= 50 * u) => score = 1000
            /\ (n >= 50 * u) => score = 0
            /\ (10 * n > 50 * u /\ n < 50 * u) =>
                  2 * (IF diff >= 0 THEN diff ELSE -diff) <= 9 * u
            /\ (g = <<"0", ".", "0", "0", "5", "5">>) => score = 1000
            /\ (g = <<"0", ".", "0", "2">>) => score = 0
            /\ (g = <<"0">>) => score = 0
            /\ (g = <<"0", ".", "0", "0", "7", "5">>) => score = 556

\* Scenario D: 0.0075 is graded 5.56.
C5_Witness ==
    GradedValue /\ LastFirstNumber = <<"0", ".", "0", "0", "7", "5">> /\ score = 556

----------------------------------------------------------------------------
(* C6 *)

\* C6: when the output holds marker occurrences, score and feedback are those
\* of the output that holds the last occurrence's first number alone, however
\* many occurrences precede it and whatever they carry; [0.01, ...] followed
\* by [0.0055, ...] scores 10.0.
C6_LastOccurrenceDecides ==
    (pc = "report" /\ HasOccurrence) =>
        /\ score = grade_result(Some(MarkerLine(LastFirstNumber))).score
        /\ feedback = grade_result(Some(MarkerLine(LastFirstNumber))).feedback
        /\ (output.val = OUT_B) => score = 1000

\* Scenario B: two marker lines, the last one within tolerance.
C6_Witness ==
    pc = "report" /\ output.val = OUT_B /\ HasEarlierOccurrence /\ score = 1000

----------------------------------------------------------------------------
(* C7 *)

\* C7: an output with no marker occurrence gets score 0 and the
\* marker-not-found feedback; one whose last occurrence has a first number
\* that does not parse (1.2.3) gets score 0 and the could-not-parse feedback;
\* in neither case does an exception leave grade_result.
C7_NotFoundNotParsed ==
    /\ pc \in {"main", "report"}
    /\ (pc = "report" /\ ~HasOccurrence) =>
          /\ score = 0
          /\ feedback =
                <<"Could not find the 'Ideal point: z' in the output. Make sure the algorithm runs to completion.">>
    /\ (pc = "report" /\ HasOccurrence /\ ~Parses(LastFirstNumber)) =>
          /\ score = 0
          /\ feedback = <<"Could not parse the ideal point values from the output.">>

\* The last occurrence carries 1.2.3 after an earlier one that parses.
C7_Witness ==
    /\ pc = "report" /\ HasEarlierOccurrence
    /\ LastFirstNumber = <<"1", ".", "2", ".", "3">>
    /\ feedback = NOT_PARSED_MESSAGE

----------------------------------------------------------------------------
(* C8 *)

\* e1 < e2 for the errors of two parsed values.
ErrorLess(f1, f2) ==
    ErrorAt(f1, Max(UnitExp(f1), UnitExp(f2))) < ErrorAt(f2, Max(UnitExp(f1), UnitExp(f2)))

\* e2 - e1 >= 0.001.
ErrorGapAtLeastMilli(f1, f2) ==
    LET exp == Max(UnitExp(f1), UnitExp(f2))
    IN  1000 * (ErrorAt(f2, exp) - ErrorAt(f1, exp)) >= 50 * Pow10(exp - 4)

\* C8 as stated: for errors e1 < e2 strictly between 0.10 and 1.0 the score
\* returned for e1 is strictly greater than the score returned for e2.
C8_StrictlyDecreasing ==
    (GradedValue /\ InBand(ParseFloat(LastFirstNumber))) =>
        LET f1 == ParseFloat(LastFirstNumber)
        IN  \A f2 \in BandValues : ErrorLess(f1, f2) => score > ScoreOfValue(f2)

\* C8 as amended: for errors e1 < e2 strictly between 0.10 and 1.0 the score
\* returned for e1 is greater than or equal to the score returned for e2, and
\* strictly greater when e2 - e1 >= 0.001 (the score is rounded to two
\* decimals, so closer errors can share a score).
C8_NonIncreasing ==
    (GradedValue /\ InBand(ParseFloat(LastFirstNumber))) =>
        LET f1 == ParseFloat(LastFirstNumber)
        IN  \A f2 \in BandValues :
                ErrorLess(f1, f2) =>
                    /\ score >= ScoreOfValue(f2)
                    /\ ErrorGapAtLeastMilli(f1, f2) => score > ScoreOfValue(f2)

\* Two errors in the band, the second larger, far enough apart for the
\* scores to differ.
C8_Witness ==
    /\ GradedValue /\ InBand(ParseFloat(LastFirstNumber))
    /\ LET f1 == ParseFloat(LastFirstNumber)
       IN  /\ \E f2 \in BandValues : ErrorGapAtLeastMilli(f1, f2) /\ score > ScoreOfValue(f2)
           /\ \E f2 \in BandValues : ErrorLess(f1, f2) /\ score = ScoreOfValue(f2)

====
